---- MODULE Spec2Model ----
(***************************************************************************)
(* Model of fix_completion_requests.py: a script that rewrites, in every   *)
(* file named on its command line, each                                    *)
(*   (let ai_request = |let completion_request = |let request = )          *)
(*   crate::ai::CompletionRequest { <body without '}'> };                  *)
(* so that the body names cursor_position: and text_before_cursor:.        *)
(*                                                                         *)
(* A text is a sequence of lexemes.  The lexemes the script's regular      *)
(* expression and its 'in' tests look for are single symbols; every other  *)
(* character is the letter "x", a comma, or a whitespace character.        *)
(***************************************************************************)
EXTENDS Naturals, Sequences, FiniteSets

\* ------------------------------------------------------------------ lexemes
LET_AI == "let ai_request = "
LET_COMPLETION == "let completion_request = "
LET_REQUEST == "let request = "
HEAD == "crate::ai::CompletionRequest {"
RBRACE == "}"
SEMI == ";"
CURSOR_POSITION == "cursor_position:"
TEXT_BEFORE_CURSOR == "text_before_cursor:"
NONE == "None"
STRING_NEW == "String::new()"
COMMA == ","
SP == " "
NL == "\n"
CR == "\r"
LETTER == "x"

\* group 1 of the pattern: the three alternatives
Prefixes == {LET_AI, LET_COMPLETION, LET_REQUEST}

\* the characters str.rstrip() removes
Whitespace == {SP, NL, CR}

\* the indentation of the inserted lines: twelve spaces
IndentLen == 12
Indent == [i \in 1..IndentLen |-> SP]

\* ------------------------------------------------------------ the pattern
Min(S) == CHOOSE m \in S : \A n \in S : m <= n

\* [^}]* then '}' : the body ends at the first '}' at or after position from
FirstRBrace(text, from) ==
  LET S == {k \in from..Len(text) : text[k] = RBRACE}
  IN IF S = {} THEN 0 ELSE Min(S)

\* the pattern anchored at position i: the position of the closing ';', or 0
MatchEnd(text, i) ==
  IF i + 1 <= Len(text) /\ text[i] \in Prefixes /\ text[i + 1] = HEAD
  THEN LET k == FirstRBrace(text, i + 2)
       IN IF k # 0 /\ k + 1 <= Len(text) /\ text[k + 1] = SEMI THEN k + 1 ELSE 0
  ELSE 0

\* the leftmost position at or after pos where the pattern matches, or 0
Search(text, pos) ==
  LET S == {i \in pos..Len(text) : MatchEnd(text, i) # 0}
  IN IF S = {} THEN 0 ELSE Min(S)

\* the match object: group(0), group(1), group(2)
MatchAt(text, i) ==
  [group0 |-> SubSeq(text, i, MatchEnd(text, i)),
   group1 |-> text[i],
   group2 |-> SubSeq(text, i + 2, MatchEnd(text, i) - 2)]

\* ------------------------------------------------------- add_missing_fields
\* label in body
Contains(body, label) == \E i \in 1..Len(body) : body[i] = label

\* mutant: str.strip() in place of str.rstrip()
RECURSIVE strip(_)
strip(s) ==
  IF s # <<>> /\ s[Len(s)] \in Whitespace THEN strip(SubSeq(s, 1, Len(s) - 1))
  ELSE IF s # <<>> /\ s[1] \in Whitespace THEN strip(Tail(s))
  ELSE s

RECURSIVE rstrip(_)
rstrip(s) ==
  IF s # <<>> /\ s[Len(s)] \in Whitespace THEN rstrip(SubSeq(s, 1, Len(s) - 1)) ELSE s

\* mutant: the inserted label is not the label the callback tests for
CursorLineOtherLabel == <<NL>> \o Indent \o <<"cursor_pos:", SP, NONE, COMMA>>

\* '\n            cursor_position: None,'
CursorLine == <<NL>> \o Indent \o <<CURSOR_POSITION, SP, NONE, COMMA>>
\* '\n            text_before_cursor: String::new(),'
TextLine == <<NL>> \o Indent \o <<TEXT_BEFORE_CURSOR, SP, STRING_NEW, COMMA>>

\* f'{prefix}crate::ai::CompletionRequest {{\n{new_body}\n            }};'
Literal(prefix, new_body) ==
  <<prefix, HEAD, NL>> \o new_body \o <<NL>> \o Indent \o <<RBRACE, SEMI>>

\* mutant: the last branch rebuilds the literal instead of returning group(0)
add_missing_fields_rebuild(match) ==
  LET prefix == match.group1
      body == match.group2
  IN IF ~Contains(body, CURSOR_POSITION) /\ ~Contains(body, TEXT_BEFORE_CURSOR)
     THEN Literal(prefix, rstrip(body) \o <<COMMA>> \o CursorLine \o TextLine)
     ELSE IF ~Contains(body, CURSOR_POSITION)
     THEN Literal(prefix, rstrip(body) \o <<COMMA>> \o CursorLine)
     ELSE IF ~Contains(body, TEXT_BEFORE_CURSOR)
     THEN Literal(prefix, rstrip(body) \o <<COMMA>> \o TextLine)
     ELSE Literal(prefix, rstrip(body))

\* mutant: the first branch appends the two fields in the other order
add_missing_fields_swapped(match) ==
  LET prefix == match.group1
      body == match.group2
  IN IF ~Contains(body, CURSOR_POSITION) /\ ~Contains(body, TEXT_BEFORE_CURSOR)
     THEN Literal(prefix, rstrip(body) \o <<COMMA>> \o TextLine \o CursorLine)
     ELSE IF ~Contains(body, CURSOR_POSITION)
     THEN Literal(prefix, rstrip(body) \o <<COMMA>> \o CursorLine)
     ELSE IF ~Contains(body, TEXT_BEFORE_CURSOR)
     THEN Literal(prefix, rstrip(body) \o <<COMMA>> \o TextLine)
     ELSE match.group0

add_missing_fields(match) ==
  LET prefix == match.group1
      body == match.group2
  IN IF ~Contains(body, CURSOR_POSITION) /\ ~Contains(body, TEXT_BEFORE_CURSOR)
     THEN Literal(prefix, rstrip(body) \o <<COMMA>> \o CursorLine \o TextLine)
     ELSE IF ~Contains(body, CURSOR_POSITION)
     THEN Literal(prefix, rstrip(body) \o <<COMMA>> \o CursorLine)
     ELSE IF ~Contains(body, TEXT_BEFORE_CURSOR)
     THEN Literal(prefix, rstrip(body) \o <<COMMA>> \o TextLine)
     ELSE match.group0

\* ------------------------------------------------------------------ re.sub
RECURSIVE SubFrom(_, _)
SubFrom(text, pos) ==
  LET i == Search(text, pos)
  IN IF i = 0
     THEN SubSeq(text, pos, Len(text))
     ELSE SubSeq(text, pos, i - 1) \o add_missing_fields(MatchAt(text, i))
          \o SubFrom(text, MatchEnd(text, i) + 1)

\* mutant: re.sub(..., count=1)
re_sub_count1(text) ==
  LET i == Search(text, 1)
  IN IF i = 0
     THEN text
     ELSE SubSeq(text, 1, i - 1) \o add_missing_fields(MatchAt(text, i))
          \o SubSeq(text, MatchEnd(text, i) + 1, Len(text))

re_sub(text) == SubFrom(text, 1)

\* ------------------------------------------------------------- text files
\* open(path, 'r').read(): universal newlines, '\r\n' and '\r' are read as '\n'
RECURSIVE ReadText(_)
ReadText(bytes) ==
  IF bytes = <<>> THEN <<>>
  ELSE IF bytes[1] = CR
  THEN IF Len(bytes) >= 2 /\ bytes[2] = NL
       THEN <<NL>> \o ReadText(SubSeq(bytes, 3, Len(bytes)))
       ELSE <<NL>> \o ReadText(Tail(bytes))
  ELSE <<bytes[1]>> \o ReadText(Tail(bytes))

\* open(path, 'w').write(text): '\n' is written as the platform's line separator
RECURSIVE WriteText(_, _)
WriteText(text, sep) ==
  IF text = <<>> THEN <<>>
  ELSE (IF text[1] = NL THEN sep ELSE <<text[1]>>) \o WriteText(Tail(text), sep)

\* os.linesep: "\n" on POSIX, "\r\n" on Windows
LineSeps == {<<NL>>, <<CR, NL>>}

\* ------------------------------------------------------------------ bounds
\* sys.argv[1:] holds at most MaxArgs paths
MaxArgs == 3
\* a text of the substitution's input space is made of at most MaxPieces pieces
MaxPieces == 4
\* a file of the single-file runs is made of at most MaxFilePieces pieces
MaxFilePieces == 3
\* the write buffer is flushed to the file BufferSize symbols at a time
BufferSize == 8

\* ------------------------------------------------------------------- state
VARIABLES
  argv,           \* sys.argv[1:]
  fs,             \* the file system: path -> [status, data]
  fs0,            \* the file system when the script started
  linesep,        \* os.linesep
  idx,            \* the position in argv of the for loop's file_path (0 before it)
  pc,             \* where the script is
  content,        \* fix_completion_requests: content
  fixed_content,  \* fix_completion_requests: fixed_content
  pending,        \* the text written to f and not yet flushed to the file
  stdout,         \* the lines printed
  trace           \* the file operations done, in order: <<operation, idx>>

vars == <<argv, fs, fs0, linesep, idx, pc, content, fixed_content, pending, stdout, trace>>

Paths == {"a.rs", "b.rs"}

file_path == argv[idx]

\* ----------------------------------------------------------------- actions
\* for file_path in sys.argv[1:]
For ==
  /\ pc = "for"
  /\ IF idx < Len(argv)
     THEN idx' = idx + 1 /\ pc' = "open_r"
     ELSE idx' = idx /\ pc' = "exit"
  /\ UNCHANGED <<argv, fs, fs0, linesep, content, fixed_content, pending, stdout, trace>>

\* mutant: open(file_path, 'a+'), which creates a missing file
OpenReadCreating ==
  /\ pc = "open_r"
  /\ IF fs[file_path].status = "unreadable"
     THEN pc' = "error" /\ fs' = fs
     ELSE /\ pc' = "read"
          /\ fs' = [fs EXCEPT ![file_path].status = IF @ = "missing" THEN "ok" ELSE @]
  /\ UNCHANGED <<argv, fs0, linesep, idx, content, fixed_content, pending, stdout, trace>>

\* mutant: the failure is caught and the loop goes on to the next path
OpenReadContinuing ==
  /\ pc = "open_r"
  /\ pc' = IF fs[file_path].status \in {"missing", "unreadable"} THEN "for" ELSE "read"
  /\ UNCHANGED <<argv, fs, fs0, linesep, idx, content, fixed_content, pending, stdout, trace>>

\* mutant: open(file_path, 'w+'), which truncates before the read
OpenReadTruncating ==
  /\ pc = "open_r"
  /\ IF fs[file_path].status \in {"missing", "unreadable"}
     THEN pc' = "error" /\ fs' = fs
     ELSE pc' = "read" /\ fs' = [fs EXCEPT ![file_path].data = <<>>]
  /\ UNCHANGED <<argv, fs0, linesep, idx, content, fixed_content, pending, stdout, trace>>

\* open(file_path, 'r'): FileNotFoundError or PermissionError is not caught
OpenRead ==
  /\ pc = "open_r"
  /\ pc' = IF fs[file_path].status \in {"missing", "unreadable"} THEN "error" ELSE "read"
  /\ UNCHANGED <<argv, fs, fs0, linesep, idx, content, fixed_content, pending, stdout, trace>>

\* content = f.read()
Read ==
  /\ pc = "read"
  /\ content' = ReadText(fs[file_path].data)
  /\ trace' = Append(trace, <<"read", idx>>)
  /\ pc' = "sub"
  /\ UNCHANGED <<argv, fs, fs0, linesep, idx, fixed_content, pending, stdout>>

\* fixed_content = re.sub(pattern, add_missing_fields, content, ...)
Substitute ==
  /\ pc = "sub"
  /\ fixed_content' = re_sub(content)
  /\ pc' = "open_w"
  /\ UNCHANGED <<argv, fs, fs0, linesep, idx, content, pending, stdout, trace>>

\* mutant: open(path, 'a'), which keeps what the file holds
Appended(file) == [status |-> "ok", data |-> file.data]

\* what open(path, 'w') makes of the file once the open has succeeded
Truncated(file) == [status |-> "ok", data |-> <<>>]

\* open(file_path, 'w'): PermissionError is not caught; the open truncates
OpenWrite ==
  /\ pc = "open_w"
  /\ IF fs[file_path].status \in {"unreadable", "readonly"}
     THEN pc' = "error" /\ fs' = fs
     ELSE pc' = "write" /\ fs' = [fs EXCEPT ![file_path] = Truncated(@)]
  /\ UNCHANGED <<argv, fs0, linesep, idx, content, fixed_content, pending, stdout, trace>>

\* f.write(fixed_content): the text goes to the file object's buffer
Write ==
  /\ pc = "write"
  /\ pending' = WriteText(fixed_content, linesep)
  /\ pc' = "close_w"
  /\ UNCHANGED <<argv, fs, fs0, linesep, idx, content, fixed_content, stdout, trace>>

\* the buffer reaches the file a chunk at a time
Flush ==
  /\ pc = "close_w"
  /\ pending # <<>>
  /\ LET n == IF Len(pending) < BufferSize THEN Len(pending) ELSE BufferSize
     IN /\ fs' = [fs EXCEPT ![file_path].data = @ \o SubSeq(pending, 1, n)]
        /\ pending' = SubSeq(pending, n + 1, Len(pending))
  /\ UNCHANGED <<argv, fs0, linesep, idx, pc, content, fixed_content, stdout, trace>>

\* leaving the with block closes f once everything is flushed
CloseWrite ==
  /\ pc = "close_w"
  /\ pending = <<>>
  /\ trace' = Append(trace, <<"write", idx>>)
  /\ pc' = "print"
  /\ UNCHANGED <<argv, fs, fs0, linesep, idx, content, fixed_content, pending, stdout>>

\* print(f"Fixed {file_path}"), and the function returns
PrintFixed ==
  /\ pc = "print"
  /\ stdout' = Append(stdout, file_path)
  /\ trace' = Append(trace, <<"print", idx>>)
  /\ content' = <<>>
  /\ fixed_content' = <<>>
  /\ pc' = "for"
  /\ UNCHANGED <<argv, fs, fs0, linesep, idx, pending>>

Next ==
  \/ For
  \/ OpenRead
  \/ Read
  \/ Substitute
  \/ OpenWrite
  \/ Write
  \/ Flush
  \/ CloseWrite
  \/ PrintFixed

\* ------------------------------------------------------------ input spaces
RECURSIVE Concat(_)
Concat(ss) == IF ss = <<>> THEN <<>> ELSE Head(ss) \o Concat(Tail(ss))

SeqsUpTo(S, n) == UNION {[1..k -> S] : k \in 0..n}

\* the substitution's inputs: every text of at most MaxPieces of these pieces
Pieces ==
  {<<LET_AI, HEAD>>, <<LET_COMPLETION, HEAD>>, <<LET_REQUEST, HEAD>>,
   <<RBRACE, SEMI>>, <<RBRACE>>, <<CURSOR_POSITION>>, <<TEXT_BEFORE_CURSOR>>,
   <<SP>>, <<NL>>, <<COMMA>>, <<LETTER>>}

Texts == {Concat(ps) : ps \in SeqsUpTo(Pieces, MaxPieces)}

\* the bytes of a file: the same pieces, and a carriage return
FileBytes == {Concat(ps) : ps \in SeqsUpTo(Pieces \cup {<<CR>>}, MaxFilePieces)}

\* the files of the batch; a file is missing, unreadable (no permission at
\* all), readonly (no write permission) or ok
FileTexts ==
  {<<>>,
   <<LETTER, CR, NL, LET_REQUEST, HEAD, RBRACE, CR, NL>>,
   <<LET_REQUEST, HEAD, SP, LETTER, SP, RBRACE, SEMI, NL>>,
   <<LET_AI, HEAD, NL, CURSOR_POSITION, COMMA, NL, RBRACE, SEMI, LETTER,
     LET_COMPLETION, HEAD, TEXT_BEFORE_CURSOR, COMMA, RBRACE, SEMI>>,
   <<LET_COMPLETION, HEAD, CURSOR_POSITION, COMMA, TEXT_BEFORE_CURSOR, RBRACE, SEMI>>}

Files ==
  {[status |-> "missing", data |-> <<>>]} \cup
  {[status |-> s, data |-> d] : s \in {"unreadable", "readonly", "ok"}, d \in FileTexts}

\* ----------------------------------------------------------- specifications
\* the script, run on a command line of at most MaxArgs paths
Init ==
  /\ argv \in SeqsUpTo(Paths, MaxArgs)
  /\ fs \in [Paths -> Files]
  /\ fs0 = fs
  /\ linesep \in LineSeps
  /\ idx = 0
  /\ pc = "for"
  /\ content = <<>>
  /\ fixed_content = <<>>
  /\ pending = <<>>
  /\ stdout = <<>>
  /\ trace = <<>>

Spec == Init /\ [][Next]_vars

\* the substitution alone, applied to every text of Texts: the script has read
\* a.rs and is about to substitute
InitSub ==
  /\ argv = <<"a.rs">>
  /\ content \in Texts
  /\ fs = [p \in Paths |-> IF p = "a.rs" THEN [status |-> "ok", data |-> content]
                                         ELSE [status |-> "missing", data |-> <<>>]]
  /\ fs0 = fs
  /\ linesep = <<NL>>
  /\ idx = 1
  /\ pc = "sub"
  /\ fixed_content = <<>>
  /\ pending = <<>>
  /\ stdout = <<>>
  /\ trace = <<<<"read", 1>>>>

SpecSub == InitSub /\ [][Substitute]_vars

\* the script, run on the one path a.rs, whatever a.rs holds
InitFile ==
  /\ argv = <<"a.rs">>
  /\ \E f \in {[status |-> "missing", data |-> <<>>]} \cup
              {[status |-> s, data |-> d] : s \in {"unreadable", "readonly", "ok"},
                                            d \in FileBytes} :
       fs = [p \in Paths |-> IF p = "a.rs" THEN f ELSE [status |-> "missing", data |-> <<>>]]
  /\ fs0 = fs
  /\ linesep \in LineSeps
  /\ idx = 0
  /\ pc = "for"
  /\ content = <<>>
  /\ fixed_content = <<>>
  /\ pending = <<>>
  /\ stdout = <<>>
  /\ trace = <<>>

SpecFile == InitFile /\ [][Next]_vars

\* ------------------------------------------------- the claims' vocabulary
\* The pattern, stated on its own: text[i..j] is a prefix, the struct's name and
\* opening brace, a body without '}', then '};'.
Occurs(text, i, j) ==
  /\ i + 3 <= j /\ j <= Len(text)
  /\ text[i] \in Prefixes /\ text[i + 1] = HEAD
  /\ text[j - 1] = RBRACE /\ text[j] = SEMI
  /\ \A k \in (i + 2)..(j - 2) : text[k] # RBRACE

\* The occurrences a left-to-right, non-overlapping scan recognizes: those that
\* no occurrence starting further left reaches.
Found(text) ==
  LET All == {o \in (1..Len(text)) \X (1..Len(text)) : Occurs(text, o[1], o[2])}
  IN {o \in All : \A q \in All : q[1] < o[1] => q[2] < o[1]}

Group(text, o) ==
  [group0 |-> SubSeq(text, o[1], o[2]),
   group1 |-> text[o[1]],
   group2 |-> SubSeq(text, o[1] + 2, o[2] - 2)]

BodyOf(text, o) == Group(text, o).group2

\* what the callback makes of occurrence o of text
Rewritten(text, o) == add_missing_fields(Group(text, o))

Has(body, label) == \E k \in DOMAIN body : body[k] = label
HasBoth(body) == Has(body, CURSOR_POSITION) /\ Has(body, TEXT_BEFORE_CURSOR)
HasNeither(body) == ~Has(body, CURSOR_POSITION) /\ ~Has(body, TEXT_BEFORE_CURSOR)

\* s without its trailing whitespace
TrimRight(s) ==
  LET n == CHOOSE m \in 0..Len(s) :
             /\ m = 0 \/ s[m] \notin Whitespace
             /\ \A k \in (m + 1)..Len(s) : s[k] \in Whitespace
  IN SubSeq(s, 1, n)

\* the positions where sub occurs in s
PositionsOf(sub, s) ==
  {k \in 1..Len(s) : k + Len(sub) - 1 <= Len(s) /\ SubSeq(s, k, k + Len(sub) - 1) = sub}

\* the substitution has been applied to content
Substituted == pc \in {"open_w", "write", "close_w", "print"}

\* ------------------------------------------------------------------ claims
\* C1: a text with no occurrence of the pattern is written back as it was read:
\* the substitution returns it unchanged, and once the file is written and
\* closed, reading the file gives exactly the text that was read.
C1_NoMatchIdentity ==
  (Substituted /\ Found(content) = {}) =>
     /\ fixed_content = content
     /\ pc = "print" => ReadText(fs[file_path].data) = content

\* a file with a prefix and the struct's name but no complete occurrence has
\* been rewritten
C1_Witness ==
  /\ pc = "print"
  /\ Found(content) = {}
  /\ \E k \in DOMAIN content : content[k] = HEAD
  /\ \E k \in DOMAIN content : content[k] = RBRACE

\* C2: the callback returns an occurrence whose body has both labels unchanged,
\* and a text whose occurrences all have both labels is substituted to itself.
C2_BothPresentUnchanged ==
  Substituted =>
     /\ \A o \in Found(content) :
          HasBoth(BodyOf(content, o)) =>
             Rewritten(content, o) = SubSeq(content, o[1], o[2])
     /\ (\A o \in Found(content) : HasBoth(BodyOf(content, o))) =>
          fixed_content = content

C2_Witness ==
  /\ Substituted
  /\ \E o \in Found(content) : HasBoth(BodyOf(content, o))
  /\ \A o \in Found(content) : HasBoth(BodyOf(content, o))

\* C3: the substitution is idempotent: applied to its own output, it returns
\* that output.
C3_Idempotent == Substituted => re_sub(fixed_content) = fixed_content

\* the first application rewrote something
C3_Witness == Substituted /\ fixed_content # content

\* the text of an occurrence's rewritten form between the opening brace and the
\* closing '};'
NewBody(r) == SubSeq(r, 3, Len(r) - 2)

CursorDefault == <<CURSOR_POSITION, SP, NONE, COMMA>>
TextDefault == <<TEXT_BEFORE_CURSOR, SP, STRING_NEW, COMMA>>

Count(body, label) == Cardinality({k \in DOMAIN body : body[k] = label})

\* C4: an occurrence whose body has neither label is rewritten to the same
\* prefix and struct name, a body, and '};'; the body holds the original body's
\* content, then 'cursor_position: None,' once, then
\* 'text_before_cursor: String::new(),' once, and each label once.
C4_NeitherGetsBoth ==
  Substituted =>
    \A o \in Found(content) :
      HasNeither(BodyOf(content, o)) =>
        LET r == Rewritten(content, o)
            nb == NewBody(r)
            old == TrimRight(BodyOf(content, o))
            cp == PositionsOf(CursorDefault, nb)
            tb == PositionsOf(TextDefault, nb)
        IN /\ r[1] = content[o[1]] /\ r[2] = HEAD
           /\ r[Len(r) - 1] = RBRACE /\ r[Len(r)] = SEMI
           /\ ~Has(nb, RBRACE)
           /\ Cardinality(cp) = 1 /\ Cardinality(tb) = 1
           /\ Count(nb, CURSOR_POSITION) = 1 /\ Count(nb, TEXT_BEFORE_CURSOR) = 1
           /\ \A c \in cp : \A t \in tb : c < t
           /\ \E k \in 1..Len(nb) :
                /\ k + Len(old) - 1 <= Len(nb)
                /\ SubSeq(nb, k, k + Len(old) - 1) = old
                /\ \A c \in cp : k + Len(old) - 1 < c

\* an occurrence with neither label and a body that is not empty
C4_Witness ==
  /\ Substituted
  /\ \E o \in Found(content) :
       /\ HasNeither(BodyOf(content, o))
       /\ TrimRight(BodyOf(content, o)) # <<>>

OneMissing(body) == Has(body, CURSOR_POSITION) # Has(body, TEXT_BEFORE_CURSOR)
MissingDefault(body) == IF Has(body, CURSOR_POSITION) THEN TextDefault ELSE CursorDefault

\* C5, as claimed: an occurrence whose body lacks exactly one label gets that
\* one field, and the original body is in the output verbatim, its leading and
\* trailing whitespace included.
C5_BodyVerbatim ==
  Substituted =>
    \A o \in Found(content) :
      OneMissing(BodyOf(content, o)) =>
        LET nb == NewBody(Rewritten(content, o))
            body == BodyOf(content, o)
        IN \E k \in 1..Len(nb) :
             /\ k + Len(body) - 1 <= Len(nb)
             /\ SubSeq(nb, k, k + Len(body) - 1) = body
             /\ SubSeq(nb, k + Len(body), Len(nb)) =
                  <<COMMA, NL>> \o Indent \o MissingDefault(body) \o <<NL>> \o Indent

\* C5, amended: the original body is in the output verbatim except for its
\* trailing whitespace, which is dropped; after it come a comma, a newline, the
\* indentation and the one missing field.
C5_BodyTrimmed ==
  Substituted =>
    \A o \in Found(content) :
      OneMissing(BodyOf(content, o)) =>
        LET nb == NewBody(Rewritten(content, o))
            body == BodyOf(content, o)
        IN /\ Count(nb, CURSOR_POSITION) = Count(body, CURSOR_POSITION) + 
                (IF Has(body, CURSOR_POSITION) THEN 0 ELSE 1)
           /\ Count(nb, TEXT_BEFORE_CURSOR) = Count(body, TEXT_BEFORE_CURSOR) +
                (IF Has(body, TEXT_BEFORE_CURSOR) THEN 0 ELSE 1)
           /\ nb = <<NL>> \o TrimRight(body) \o <<COMMA, NL>> \o Indent
                     \o MissingDefault(body) \o <<NL>> \o Indent

\* an occurrence with one label and whitespace at the end of its body
C5_Witness ==
  /\ Substituted
  /\ \E o \in Found(content) :
       /\ OneMissing(BodyOf(content, o))
       /\ TrimRight(BodyOf(content, o)) # BodyOf(content, o)

\* the lengths, summed, of a set of occurrences of text and of their rewritten
\* forms
RECURSIVE OldLen(_)
OldLen(S) ==
  IF S = {} THEN 0
  ELSE LET o == CHOOSE x \in S : TRUE IN (o[2] - o[1] + 1) + OldLen(S \ {o})

RECURSIVE NewLen(_, _)
NewLen(text, S) ==
  IF S = {} THEN 0
  ELSE LET o == CHOOSE x \in S : TRUE IN Len(Rewritten(text, o)) + NewLen(text, S \ {o})

\* where position p of text lands in the output, every occurrence that ends
\* before p having been replaced by its rewritten form
NewPos(text, p) ==
  LET before == {o \in Found(text) : o[2] < p}
  IN (p + NewLen(text, before)) - OldLen(before)

\* C6: the output is the input with each recognized occurrence replaced in
\* place by its rewritten form: every symbol outside the occurrences is in the
\* output, at its position shifted by the growth of the occurrences before it,
\* every rewritten form is where its occurrence was, and nothing else is there.
C6_OutsideUnchanged ==
  Substituted =>
    /\ Len(fixed_content) + 1 = NewPos(content, Len(content) + 1)
    /\ \A p \in 1..Len(content) :
         (\A o \in Found(content) : p < o[1] \/ o[2] < p) =>
            fixed_content[NewPos(content, p)] = content[p]
    /\ \A o \in Found(content) :
         LET r == Rewritten(content, o)
             at == NewPos(content, o[1])
         IN SubSeq(fixed_content, at, at + Len(r) - 1) = r

\* a rewritten occurrence with text before it and text after it
C6_Witness ==
  /\ Substituted
  /\ \E o \in Found(content) :
       /\ 1 < o[1] /\ o[2] < Len(content)
       /\ Rewritten(content, o) # SubSeq(content, o[1], o[2])

\* a field slot with nothing in it: a comma that follows the opening brace or
\* another comma with only whitespace between them
EmptySlot(lit) ==
  \E i \in DOMAIN lit : \E j \in DOMAIN lit :
    /\ i < j
    /\ lit[i] \in {HEAD, COMMA} /\ lit[j] = COMMA
    /\ \A k \in (i + 1)..(j - 1) : lit[k] \in Whitespace

\* C9: a rewritten occurrence has no empty field slot unless the original had
\* one: every appended field follows a field-assignment and one comma.
C9_NoEmptySlot ==
  Substituted =>
    \A o \in Found(content) :
      LET r == Rewritten(content, o)
          old == SubSeq(content, o[1], o[2])
      IN (r # old /\ EmptySlot(r)) => EmptySlot(old)

\* the script is inside fix_completion_requests(argv[idx])
InCall == pc \in {"open_r", "read", "sub", "open_w", "write", "close_w", "print", "error"}

\* the path was not named earlier on the command line
FirstUse == \A j \in 1..(idx - 1) : argv[j] # file_path

\* what a whole run of fix_completion_requests leaves in a file that held data
Patched(data) == WriteText(re_sub(ReadText(data)), linesep)

\* C7: a path that cannot be opened makes the call fail: the script never gets
\* past the open that fails (for reading: a missing or unreadable file; for
\* writing: a file without write permission), and once it has failed, nothing
\* was written or printed for the path and the file is as it was: not created,
\* not altered.
C7_OpenFailure ==
  InCall =>
    /\ fs0[file_path].status \in {"missing", "unreadable"} => pc \in {"open_r", "error"}
    /\ fs0[file_path].status = "readonly" => pc \in {"open_r", "read", "sub", "open_w", "error"}
    /\ pc = "error" =>
         /\ fs0[file_path].status # "ok"
         /\ fs[file_path] = fs0[file_path]
         /\ Len(stdout) = idx - 1
         /\ \A k \in DOMAIN trace : trace[k] \notin {<<"write", idx>>, <<"print", idx>>}

\* the open for writing has failed on a file that holds something
C7_Witness ==
  /\ pc = "error"
  /\ fs0[file_path].status = "readonly"
  /\ fs0[file_path].data # <<>>

Ops == <<"read", "write", "print">>

\* C8: the paths are processed one at a time in command-line order (the file
\* operations are read, write, print of argument 1, then of argument 2, ...; the
\* lines printed are the paths, in order), and the first failure ends the run:
\* nothing can follow it, every earlier argument's file holds its patched text
\* and has its line printed, and no later argument has been touched.
C8_StopsAtFirstFailure ==
  /\ \A k \in DOMAIN trace : trace[k] = <<Ops[((k - 1) % 3) + 1], ((k - 1) \div 3) + 1>>
  /\ \A k \in DOMAIN trace : trace[k][2] <= idx
  /\ stdout = [k \in 1..Len(stdout) |-> argv[k]]
  /\ Len(stdout) = Cardinality({k \in DOMAIN trace : trace[k][1] = "print"})
  /\ pc = "error" =>
       /\ ~ENABLED Next
       /\ Len(stdout) = idx - 1
       /\ \A j \in 1..(idx - 1) : fs[argv[j]].data = Patched(fs0[argv[j]].data)
       /\ \A j \in (idx + 1)..Len(argv) :
            (\A i \in 1..(idx - 1) : argv[i] # argv[j]) => fs[argv[j]] = fs0[argv[j]]

\* the second of three arguments has failed, after the first was rewritten
C8_Witness ==
  /\ pc = "error"
  /\ idx = 2
  /\ Len(argv) = 3
  /\ fs[argv[1]].data # fs0[argv[1]].data
  /\ argv[3] # argv[1]

IsPrefix(s, t) == Len(s) <= Len(t) /\ s = SubSeq(t, 1, Len(s))

\* C10: until the file is opened for writing it holds what it held (the bytes
\* the script started with, when the path is named for the first time, and in
\* any case the text that was read); from then on it holds a beginning of the
\* patched text, and all of it only once the file is closed.
C10_NotAtomic ==
  InCall =>
    /\ (pc \in {"open_r", "read", "sub", "open_w"} /\ FirstUse) => fs[file_path] = fs0[file_path]
    /\ pc \in {"sub", "open_w"} => ReadText(fs[file_path].data) = content
    /\ pc \in {"write", "close_w"} =>
         IsPrefix(fs[file_path].data, WriteText(fixed_content, linesep))
    /\ pc = "print" => fs[file_path].data = WriteText(fixed_content, linesep)

\* the file is open for writing and holds neither what it held nor the patched
\* text: a part of the patched text has reached it
C10_Witness ==
  /\ pc = "close_w"
  /\ FirstUse
  /\ fs[file_path].data # <<>>
  /\ fs[file_path].data # fs0[file_path].data
  /\ fs[file_path].data # WriteText(fixed_content, linesep)
  /\ ReadText(fs[file_path].data) # content

====
